---- MODULE Spec2Model ----
(***************************************************************************)
(* Model of the Subtitler Streamlit application (src/app.py).              *)
(*                                                                         *)
(* A Python str is a sequence of one-character strings.  The script body   *)
(* is a state machine over one browser session: widget interactions rerun  *)
(* the script, and a rerun with "Create Subtitles" pressed walks through   *)
(* the pipeline block (extract, transcribe, translate, store).             *)
(*                                                                         *)
(*   Spec        one session of the application, script reruns included    *)
(*   SpecT       translate_subtitles alone, over a bounded set of inputs   *)
(*   SpecC       several sessions running generate_subtitles concurrently  *)
(***************************************************************************)
EXTENDS Integers, Sequences, FiniteSets, TLC

(***************************************************************************)
(* Bounds                                                                  *)
(***************************************************************************)
MaxLines == 3
MaxRuns == 1
NumSessions == 2

(***************************************************************************)
(* Python str helpers                                                      *)
(***************************************************************************)
NL == "\n"
Whitespace == {" "}
Digits == {"1", "2"}
Arrow == <<"-", "-", ">">>

\* str.split("\n"): always at least one piece, pieces never contain "\n"
RECURSIVE SplitFrom(_, _, _)
SplitFrom(s, i, cur) ==
    IF i > Len(s) THEN <<cur>>
    ELSE IF s[i] = NL THEN <<cur>> \o SplitFrom(s, i + 1, <<>>)
    ELSE SplitFrom(s, i + 1, Append(cur, s[i]))

Split(s) == SplitFrom(s, 1, <<>>)

\* "\n".join(lines)
RECURSIVE Join(_)
Join(lines) ==
    IF Len(lines) = 0 THEN <<>>
    ELSE IF Len(lines) = 1 THEN lines[1]
    ELSE lines[1] \o <<NL>> \o Join(Tail(lines))

\* str.strip(): drop leading and trailing whitespace
RECURSIVE LStrip(_)
LStrip(s) ==
    IF Len(s) > 0 /\ s[1] \in Whitespace THEN LStrip(Tail(s)) ELSE s

RECURSIVE RStrip(_)
RStrip(s) ==
    IF Len(s) > 0 /\ s[Len(s)] \in Whitespace
    THEN RStrip(SubSeq(s, 1, Len(s) - 1)) ELSE s

Strip(s) == RStrip(LStrip(s))

\* str.isdigit(): non-empty and every character a digit
IsDigit(s) == Len(s) > 0 /\ \A i \in 1..Len(s) : s[i] \in Digits

\* pat in s
Contains(s, pat) ==
    \E i \in 1..(Len(s) - Len(pat) + 1) : SubSeq(s, i, i + Len(pat) - 1) = pat

IsTextual_NoBlankCheck(line) ==
    /\ ~IsDigit(Strip(line))
    /\ ~Contains(line, Arrow)

\* the condition of the if at line 54: the line is sent to the translator
IsTextual(line) ==
    /\ Strip(line) # <<>>
    /\ ~IsDigit(Strip(line))
    /\ ~Contains(line, Arrow)


(***************************************************************************)
(* Program constants                                                       *)
(***************************************************************************)
LanguageOptions == {"English", "Russian", "Ukrainian", "Polish"}

language_code_map_WrongCode ==
    [l \in LanguageOptions |->
        CASE l = "English" -> "en"
          [] l = "Russian" -> "ru"
          [] l = "Ukrainian" -> "ua"
          [] l = "Polish" -> "pl"]

language_code_map ==
    [l \in LanguageOptions |->
        CASE l = "English" -> "en"
          [] l = "Russian" -> "ru"
          [] l = "Ukrainian" -> "uk"
          [] l = "Polish" -> "pl"]

StageOrder == <<"extract", "transcribe", "translate">>

(***************************************************************************)
(* Inputs and answers of the external components                           *)
(***************************************************************************)
\* what the user can have in the key field
Keys == {"", "k1"}

\* credentials of the concurrent sessions of SpecC
SessionKeys == {"k1", "k2", "k3"}

\* lines a subtitle text is built from: index, timing, text, blank,
\* blank-with-space, padded index
LineSamples ==
    { <<"1">>, Arrow, <<"a">>, <<>>, <<" ">>, <<" ", "2">> }

RECURSIVE LinesOfLen(_)
LinesOfLen(n) ==
    IF n = 0 THEN {<<>>}
    ELSE {Append(ls, l) : ls \in LinesOfLen(n - 1), l \in LineSamples}

\* inputs of translate_subtitles in SpecT
Docs == UNION {{Join(ls) : ls \in LinesOfLen(n)} : n \in 1..MaxLines}

\* what the speech-to-text service answers in Spec
Transcripts ==
    { <<"1", NL>> \o Arrow \o <<NL, "a">>,
      <<"a", NL, "1">> }

\* what the user can type over the stored subtitles
EditedTexts == { <<"c">> }

\* what the translation model answers for one line
ModelOutputs == { <<"b">>, <<"b", NL, "b">> }
Raise == <<"<raise>">>

\* where extract_audio_to_mp3 can fail
ExtractFaults ==
    {"none", "mkvideo", "write", "mkaudio", "ffmpeg_nonzero", "ffmpeg_unreachable",
     "remove_video"}

NoFile == [kind |-> "none", id |-> 0]
NoDoc == <<"<none>">>
NoKey == "<unset>"

(***************************************************************************)
(* State                                                                   *)
(***************************************************************************)
VARIABLES
    \* widgets and st.session_state
    api_key, api_key_confirmed, source_language, target_language,
    uploaded_file, srt_content, sidebar_error,
    \* history: the keys that were in the field when OK confirmed them
    confirmed_keys,
    \* position of the script and what the last run reported
    pc, run_no, calls, stage_ok, failed_stage, error_msg, success_toast,
    \* filesystem
    fs, next_tmp, run_created, audio_path, ffmpeg_exit,
    \* openai module global and the credential the service saw
    openai_api_key, stt_key_used,
    \* locals of the pipeline block and of translate_subtitles
    subtitles, t_pc, t_lines, t_i, translated_lines, t_result, t_error,
    t_fault, load_calls, model_calls, model_cache,
    \* concurrent sessions in generate_subtitles (SpecC)
    req_pc, req_key, req_used

uiVars == <<api_key, api_key_confirmed, source_language, target_language,
            uploaded_file, sidebar_error, confirmed_keys>>
runVars == <<pc, run_no, calls, stage_ok, failed_stage, error_msg, success_toast>>
fsVars == <<fs, next_tmp, run_created, audio_path, ffmpeg_exit>>
keyVars == <<openai_api_key, stt_key_used>>
tVars == <<t_pc, t_lines, t_i, translated_lines, t_result, t_error, t_fault,
           load_calls, model_calls>>
reqVars == <<req_pc, req_key, req_used>>

vars == <<uiVars, srt_content, runVars, fsVars, keyVars, subtitles, tVars,
          model_cache, reqVars>>

Sessions == 1..NumSessions

source_language_code == language_code_map[source_language]
target_language_code == language_code_map[target_language]

(***************************************************************************)
(* Initial state: the first script run of a fresh session has stopped at   *)
(* st.stop() (line 85); nothing below it has run.                          *)
(***************************************************************************)
TranslateLocalsInit ==
    /\ t_pc = "off"
    /\ t_lines = <<>>
    /\ t_i = 0
    /\ translated_lines = <<>>
    /\ t_result = NoDoc
    /\ t_error = <<>>
    /\ t_fault = FALSE
    /\ load_calls = 0
    /\ model_calls = <<>>

RunLocalsInit ==
    /\ calls = <<>>
    /\ stage_ok = <<>>
    /\ failed_stage = "none"
    /\ error_msg = <<>>
    /\ success_toast = FALSE
    /\ run_created = {}
    /\ audio_path = NoFile
    /\ ffmpeg_exit = "not_run"
    /\ subtitles = NoDoc
    /\ stt_key_used = NoKey
    /\ TranslateLocalsInit

NoRequests ==
    /\ req_pc = [s \in Sessions |-> "off"]
    /\ req_key = [s \in Sessions |-> NoKey]
    /\ req_used = [s \in Sessions |-> NoKey]

Init ==
    /\ api_key = ""
    /\ api_key_confirmed = FALSE
    /\ source_language = "English"
    /\ target_language = "English"
    /\ uploaded_file = FALSE
    /\ sidebar_error = FALSE
    /\ confirmed_keys = {}
    /\ srt_content = <<>>
    /\ pc = "Idle"
    /\ run_no = 0
    /\ fs = {}
    /\ next_tmp = 0
    /\ openai_api_key = NoKey
    /\ model_cache = {}
    /\ RunLocalsInit
    /\ NoRequests

(***************************************************************************)
(* Script reruns (lines 70-120).  A widget interaction reruns the script   *)
(* from the top; the locals of the previous run are gone.                  *)
(***************************************************************************)
TranslateLocalsCleared ==
    /\ t_pc' = "off"
    /\ t_lines' = <<>>
    /\ t_i' = 0
    /\ translated_lines' = <<>>
    /\ t_result' = NoDoc
    /\ t_error' = <<>>
    /\ t_fault' = FALSE
    /\ load_calls' = 0
    /\ model_calls' = <<>>

RunLocalsCleared ==
    /\ calls' = <<>>
    /\ stage_ok' = <<>>
    /\ failed_stage' = "none"
    /\ error_msg' = <<>>
    /\ success_toast' = FALSE
    /\ run_created' = {}
    /\ audio_path' = NoFile
    /\ ffmpeg_exit' = "not_run"
    /\ subtitles' = NoDoc
    /\ stt_key_used' = NoKey
    /\ TranslateLocalsCleared

ScriptAtRest == pc \in {"Idle", "Done", "Failed"}

\* one run of the script with the given widget values: from the top to the
\* pipeline block when Create Subtitles starts a run, else to the end;
\* edited is what the subtitle editor holds (lines 143-152)
Rerun(key, ok_pressed, src, tgt, up, create, edited) ==
    /\ ScriptAtRest
    /\ api_key' = key
    /\ sidebar_error' = (ok_pressed /\ key = "")
    /\ api_key_confirmed' = (api_key_confirmed \/ (ok_pressed /\ key # ""))
    /\ confirmed_keys' = IF ok_pressed /\ key # ""
                         THEN confirmed_keys \cup {key} ELSE confirmed_keys
    /\ srt_content' = IF api_key_confirmed' /\ srt_content # <<>> /\ ~(up /\ create)
                      THEN edited ELSE srt_content
    /\ IF ~api_key_confirmed'
       THEN /\ pc' = "Idle"
            /\ UNCHANGED <<source_language, target_language, uploaded_file, run_no>>
       ELSE /\ source_language' = src
            /\ target_language' = tgt
            /\ uploaded_file' = up
            /\ IF up /\ create
               THEN /\ run_no < MaxRuns
                    /\ run_no' = run_no + 1
                    /\ pc' = "Extracting"
               ELSE /\ pc' = "Idle"
                    /\ UNCHANGED run_no
    /\ RunLocalsCleared
    /\ UNCHANGED <<fs, next_tmp, openai_api_key, model_cache, reqVars>>

EnterKey ==
    \E k \in Keys :
        /\ k # api_key
        /\ Rerun(k, FALSE, source_language, target_language, uploaded_file, FALSE, srt_content)

PressOK ==
    Rerun(api_key, TRUE, source_language, target_language, uploaded_file, FALSE, srt_content)

SelectSource ==
    \E l \in LanguageOptions :
        /\ api_key_confirmed
        /\ l # source_language
        /\ Rerun(api_key, FALSE, l, target_language, uploaded_file, FALSE, srt_content)

SelectTarget ==
    \E l \in LanguageOptions :
        /\ api_key_confirmed
        /\ l # target_language
        /\ Rerun(api_key, FALSE, source_language, l, uploaded_file, FALSE, srt_content)

Upload ==
    /\ api_key_confirmed
    /\ Rerun(api_key, FALSE, source_language, target_language, ~uploaded_file, FALSE, srt_content)

PressCreate ==
    /\ api_key_confirmed
    /\ Rerun(api_key, FALSE, source_language, target_language, uploaded_file, TRUE, srt_content)

\* the user changes the text in the subtitle editor, shown while a document is
\* stored (lines 143-152)
EditSubtitles ==
    \E e \in EditedTexts :
        /\ api_key_confirmed
        /\ srt_content # <<>>
        /\ e # srt_content
        /\ Rerun(api_key, FALSE, source_language, target_language, uploaded_file,
                 FALSE, e)

(***************************************************************************)
(* extract_audio_to_mp3 (lines 16-34)                                      *)
(***************************************************************************)
TmpFile(k, n) == [kind |-> k, id |-> n]

\* the call on filesystem files with next free temporary name n, failing at
\* fault: the files afterwards, the files it created, the returned path
\* (NoFile when it raises) and the RuntimeError text
extract_audio_to_mp3_KeepsVideo(fault, files, n) ==
    LET video == TmpFile("video", n)
        audio == TmpFile("audio", n + 1)
    IN  CASE fault = "mkvideo" ->
               [fs |-> files, created |-> {}, next |-> n, path |-> NoFile,
                tool_exit |-> "not_run",
                err |-> <<"Unexpected error", "OSError">>]
          [] fault \in {"write", "mkaudio"} ->
               [fs |-> files \cup {video}, created |-> {video}, next |-> n + 1,
                path |-> NoFile, tool_exit |-> "not_run",
                err |-> <<"Unexpected error", "OSError">>]
          [] fault = "ffmpeg_nonzero" ->
               [fs |-> files \cup {video, audio}, created |-> {video, audio},
                next |-> n + 2, path |-> NoFile, tool_exit |-> "nonzero",
                err |-> <<"FFmpeg error", "CalledProcessError">>]
          [] fault = "ffmpeg_unreachable" ->
               [fs |-> files \cup {video, audio}, created |-> {video, audio},
                next |-> n + 2, path |-> NoFile, tool_exit |-> "not_run",
                err |-> <<"Unexpected error", "FileNotFoundError">>]
          [] fault = "remove_video" ->
               [fs |-> files \cup {video, audio}, created |-> {video, audio},
                next |-> n + 2, path |-> NoFile, tool_exit |-> "zero",
                err |-> <<"Unexpected error", "OSError">>]
          [] OTHER ->
               [fs |-> files \cup {video, audio}, created |-> {video, audio},
                next |-> n + 2, path |-> audio, tool_exit |-> "zero",
                err |-> <<>>]

extract_audio_to_mp3(fault, files, n) ==
    LET video == TmpFile("video", n)
        audio == TmpFile("audio", n + 1)
    IN  CASE fault = "mkvideo" ->
               [fs |-> files, created |-> {}, next |-> n, path |-> NoFile,
                tool_exit |-> "not_run",
                err |-> <<"Unexpected error", "OSError">>]
          [] fault \in {"write", "mkaudio"} ->
               [fs |-> files \cup {video}, created |-> {video}, next |-> n + 1,
                path |-> NoFile, tool_exit |-> "not_run",
                err |-> <<"Unexpected error", "OSError">>]
          [] fault = "ffmpeg_nonzero" ->
               [fs |-> files \cup {video, audio}, created |-> {video, audio},
                next |-> n + 2, path |-> NoFile, tool_exit |-> "nonzero",
                err |-> <<"FFmpeg error", "CalledProcessError">>]
          [] fault = "ffmpeg_unreachable" ->
               [fs |-> files \cup {video, audio}, created |-> {video, audio},
                next |-> n + 2, path |-> NoFile, tool_exit |-> "not_run",
                err |-> <<"Unexpected error", "FileNotFoundError">>]
          [] fault = "remove_video" ->
               [fs |-> files \cup {video, audio}, created |-> {video, audio},
                next |-> n + 2, path |-> NoFile, tool_exit |-> "zero",
                err |-> <<"Unexpected error", "OSError">>]
          [] OTHER ->
               [fs |-> (files \cup {video, audio}) \ {video},
                created |-> {video, audio},
                next |-> n + 2, path |-> audio, tool_exit |-> "zero",
                err |-> <<>>]


(***************************************************************************)
(* The pipeline block (lines 120-141)                                      *)
(***************************************************************************)
\* where the block continues once a stage has raised: the except clause
\* reports and the block is over
NextAfterFailure_Retry(stage) ==
    IF stage = "transcribe" THEN "Transcribing" ELSE "Failed"

NextAfterFailure(stage) == "Failed"

\* except Exception as e: st.error(f"An error occurred: {e}")
Fail(stage, e) ==
    /\ failed_stage' = stage
    /\ error_msg' = <<"An error occurred">> \o e
    /\ pc' = NextAfterFailure(stage)

DocAfterFailure_Overwritten(doc) == <<"e", "r", "r">>

\* the except clause does not touch st.session_state["srt_content"]
DocAfterFailure(doc) == doc

\* a stage raised before line 133
StageFail(stage, e) ==
    /\ Fail(stage, e)
    /\ srt_content' = DocAfterFailure(srt_content)
    /\ UNCHANGED success_toast

\* audio_path = extract_audio_to_mp3(uploaded_file)
Extract ==
    /\ pc = "Extracting"
    /\ \E fault \in ExtractFaults :
         LET r == extract_audio_to_mp3(fault, fs, next_tmp) IN
         /\ calls' = Append(calls, "extract")
         /\ fs' = r.fs
         /\ next_tmp' = r.next
         /\ run_created' = run_created \cup r.created
         /\ ffmpeg_exit' = r.tool_exit
         /\ IF r.path # NoFile
            THEN /\ audio_path' = r.path
                 /\ stage_ok' = Append(stage_ok, "extract")
                 /\ pc' = "Transcribing"
                 /\ UNCHANGED <<failed_stage, error_msg, success_toast, srt_content>>
            ELSE /\ StageFail("extract", r.err)
                 /\ UNCHANGED <<audio_path, stage_ok>>
    /\ UNCHANGED <<uiVars, run_no, keyVars, subtitles, tVars, model_cache, reqVars>>

\* subtitles = generate_subtitles(audio_path, api_key): the key goes into the
\* openai module global, the request is made with whatever the global holds
Transcribe ==
    /\ pc = "Transcribing"
    /\ audio_path \in fs
    /\ calls' = Append(calls, "transcribe")
    /\ openai_api_key' = api_key
    /\ stt_key_used' = openai_api_key'
    /\ \E answer \in Transcripts \cup {Raise} :
         IF answer # Raise
         THEN /\ subtitles' = answer
              /\ stage_ok' = Append(stage_ok, "transcribe")
              /\ pc' = "Translating"
              /\ UNCHANGED <<failed_stage, error_msg, success_toast, srt_content>>
         ELSE /\ StageFail("transcribe", <<"APIError">>)
              /\ UNCHANGED <<subtitles, stage_ok>>
    /\ UNCHANGED <<uiVars, run_no, fsVars, tVars, model_cache, reqVars>>

(***************************************************************************)
(* translate_subtitles (lines 46-61), one action per step of the call      *)
(***************************************************************************)
IsIdentityPair_Never(source_lang, target_lang) == FALSE

\* line 47
IsIdentityPair(source_lang, target_lang) == source_lang = target_lang

\* lines 60-61 reached from the translator call of line 55
T_LineRaises_Swallowed(line) ==
    /\ t_fault' = TRUE
    /\ translated_lines' = Append(translated_lines, line)
    /\ t_i' = t_i + 1
    /\ UNCHANGED <<t_pc, t_error>>

T_LineRaises(line) ==
    /\ t_fault' = TRUE
    /\ t_pc' = "raised"
    /\ t_error' = <<"Error during translation", "ModelError">>
    /\ UNCHANGED <<translated_lines, t_i>>

\* lines 47-52: the identity short-circuit, else load_translation_model
\* (memoised per pair by st.cache_resource; a failed construction is not
\* cached) and the split
T_Enter ==
    /\ pc = "Translating"
    /\ t_pc = "off"
    /\ calls' = Append(calls, "translate")
    /\ IF IsIdentityPair(source_language_code, target_language_code)
       THEN /\ t_result' = subtitles
            /\ t_pc' = "returned"
            /\ UNCHANGED <<t_lines, t_i, t_error, t_fault, load_calls, model_cache>>
       ELSE /\ load_calls' = load_calls + 1
            /\ \E constructed \in BOOLEAN :
                 LET pair == <<source_language_code, target_language_code>> IN
                 IF pair \in model_cache \/ constructed
                 THEN /\ pair \in model_cache => constructed
                      /\ model_cache' = model_cache \cup {pair}
                      /\ t_lines' = Split(subtitles)
                      /\ t_i' = 1
                      /\ t_pc' = "loop"
                      /\ UNCHANGED <<t_result, t_error, t_fault>>
                 ELSE /\ t_fault' = TRUE
                      /\ t_pc' = "raised"
                      /\ t_error' = <<"Error during translation", "LoadError">>
                      /\ UNCHANGED <<t_lines, t_i, t_result, model_cache>>
    /\ UNCHANGED <<uiVars, srt_content, pc, run_no, stage_ok, failed_stage,
                   error_msg, success_toast, fsVars, keyVars, subtitles,
                   translated_lines, model_calls, reqVars>>

\* lines 53-58: one iteration of the loop
T_Line ==
    /\ pc = "Translating"
    /\ t_pc = "loop"
    /\ t_i <= Len(t_lines)
    /\ LET line == t_lines[t_i] IN
       IF IsTextual(line)
       THEN /\ model_calls' = Append(model_calls, line)
            /\ \E answer \in ModelOutputs \cup {Raise} :
                 IF answer = Raise
                 THEN T_LineRaises(line)
                 ELSE /\ translated_lines' = Append(translated_lines, answer)
                      /\ t_i' = t_i + 1
                      /\ UNCHANGED <<t_pc, t_error, t_fault>>
       ELSE /\ translated_lines' = Append(translated_lines, line)
            /\ t_i' = t_i + 1
            /\ UNCHANGED <<model_calls, t_pc, t_error, t_fault>>
    /\ UNCHANGED <<uiVars, srt_content, runVars, fsVars, keyVars, subtitles,
                   t_lines, t_result, load_calls, model_cache, reqVars>>

\* line 59
T_Join ==
    /\ pc = "Translating"
    /\ t_pc = "loop"
    /\ t_i > Len(t_lines)
    /\ t_result' = Join(translated_lines)
    /\ t_pc' = "returned"
    /\ UNCHANGED <<uiVars, srt_content, runVars, fsVars, keyVars, subtitles,
                   t_lines, t_i, translated_lines, t_error, t_fault,
                   load_calls, model_calls, model_cache, reqVars>>

\* lines 131-138: translate_subtitles returned; the document is stored and
\* success is reported before os.remove(audio_path), which is still inside
\* the try block
Store ==
    /\ pc = "Translating"
    /\ t_pc = "returned"
    /\ stage_ok' = Append(stage_ok, "translate")
    /\ srt_content' = t_result
    /\ success_toast' = TRUE
    /\ \E removed \in BOOLEAN :
         IF removed
         THEN /\ fs' = fs \ {audio_path}
              /\ pc' = "Done"
              /\ UNCHANGED <<failed_stage, error_msg>>
         ELSE /\ Fail("cleanup", <<"OSError">>)
              /\ UNCHANGED fs
    /\ UNCHANGED <<uiVars, run_no, calls, next_tmp, run_created, audio_path,
                   ffmpeg_exit, keyVars, subtitles, tVars, model_cache, reqVars>>

\* lines 140-141: translate_subtitles raised
CatchTranslate ==
    /\ pc = "Translating"
    /\ t_pc = "raised"
    /\ StageFail("translate", t_error)
    /\ UNCHANGED <<uiVars, run_no, calls, stage_ok, fsVars, keyVars, subtitles,
                   tVars, model_cache, reqVars>>

(***************************************************************************)
(* generate_subtitles run by several sessions at once (lines 36-44, 8-9)   *)
(***************************************************************************)
\* line 37: set_openai_api_key(api_key)
G_SetKey(s) ==
    /\ req_pc[s] = "start"
    /\ openai_api_key' = req_key[s]
    /\ req_pc' = [req_pc EXCEPT ![s] = "key_set"]
    /\ UNCHANGED <<req_key, req_used>>

\* line 38: open(audio_path, "rb")
G_Open(s) ==
    /\ req_pc[s] = "key_set"
    /\ req_pc' = [req_pc EXCEPT ![s] = "file_open"]
    /\ UNCHANGED <<openai_api_key, req_key, req_used>>

\* lines 39-43: the request is authenticated with the module global
G_Transcribe(s) ==
    /\ req_pc[s] = "file_open"
    /\ req_used' = [req_used EXCEPT ![s] = openai_api_key]
    /\ req_pc' = [req_pc EXCEPT ![s] = "done"]
    /\ UNCHANGED <<openai_api_key, req_key>>

SetKeyStep == \E s \in Sessions : G_SetKey(s)
OpenStep == \E s \in Sessions : G_Open(s)
TranscribeStep == \E s \in Sessions : G_Transcribe(s)

(***************************************************************************)
(* Specifications                                                          *)
(***************************************************************************)
Next ==
    \/ EnterKey
    \/ PressOK
    \/ SelectSource
    \/ SelectTarget
    \/ Upload
    \/ PressCreate
    \/ EditSubtitles
    \/ Extract
    \/ Transcribe
    \/ T_Enter
    \/ T_Line
    \/ T_Join
    \/ Store
    \/ CatchTranslate

Spec == Init /\ [][Next]_vars

\* translate_subtitles called from the pipeline block on any bounded
\* subtitle text and any pair of the selectable languages
InitT ==
    /\ api_key = "k1"
    /\ api_key_confirmed = TRUE
    /\ source_language \in LanguageOptions
    /\ target_language \in LanguageOptions
    /\ uploaded_file = TRUE
    /\ sidebar_error = FALSE
    /\ confirmed_keys = {"k1"}
    /\ srt_content = <<>>
    /\ pc = "Translating"
    /\ run_no = 1
    /\ calls = <<"extract", "transcribe">>
    /\ stage_ok = <<"extract", "transcribe">>
    /\ failed_stage = "none"
    /\ error_msg = <<>>
    /\ success_toast = FALSE
    /\ fs = {TmpFile("audio", 1)}
    /\ next_tmp = 2
    /\ run_created = {TmpFile("video", 0), TmpFile("audio", 1)}
    /\ audio_path = TmpFile("audio", 1)
    /\ ffmpeg_exit = "zero"
    /\ openai_api_key = "k1"
    /\ stt_key_used = "k1"
    /\ subtitles \in Docs
    /\ model_cache = {}
    /\ TranslateLocalsInit
    /\ NoRequests

NextT == T_Enter \/ T_Line \/ T_Join

SpecT == InitT /\ [][NextT]_vars

\* every session is about to call generate_subtitles with its own key
InitC ==
    /\ api_key = ""
    /\ api_key_confirmed = FALSE
    /\ source_language = "English"
    /\ target_language = "English"
    /\ uploaded_file = FALSE
    /\ sidebar_error = FALSE
    /\ confirmed_keys = {}
    /\ srt_content = <<>>
    /\ pc = "Idle"
    /\ run_no = 0
    /\ fs = {}
    /\ next_tmp = 0
    /\ openai_api_key = NoKey
    /\ model_cache = {}
    /\ RunLocalsInit
    /\ req_pc = [s \in Sessions |-> "start"]
    /\ req_key \in [Sessions -> SessionKeys]
    /\ req_used = [s \in Sessions |-> NoKey]

AppUnchanged ==
    UNCHANGED <<uiVars, srt_content, runVars, fsVars, stt_key_used, subtitles,
                tVars, model_cache>>

NextC ==
    \/ SetKeyStep /\ AppUnchanged
    \/ OpenStep /\ AppUnchanged
    \/ TranscribeStep /\ AppUnchanged

SpecC == InitC /\ [][NextC]_vars

(***************************************************************************)
(* Properties                                                              *)
(***************************************************************************)
IsPrefix(a, b) == Len(a) <= Len(b) /\ SubSeq(b, 1, Len(a)) = a

RunOver == pc \in {"Done", "Failed"}

CreatedOfKind(k) == {f \in run_created : f.kind = k}

NonIdentityPair == source_language_code # target_language_code

HasTextualLine(s) == \E i \in 1..Len(Split(s)) : IsTextual(Split(s)[i])

\* an index line is entirely digits, a timing line contains "-->"
IsIndexLine(line) == IsDigit(line)
IsTimingLine(line) == Contains(line, Arrow)

\* the stage a reported message names: the prefixes the stages put in front
\* of the cause; a message without one names no stage
StageNamedBy(msg) ==
    IF \E i \in 1..Len(msg) : msg[i] \in {"FFmpeg error", "Unexpected error"}
    THEN "extract"
    ELSE IF \E i \in 1..Len(msg) : msg[i] = "Error during translation"
    THEN "translate"
    ELSE "none"

SupportedCodes == {"en", "ru", "uk", "pl"}

\* C1: once a pipeline run is over, by success or by a failure in any stage,
\* none of the temporary video or audio files the run created is left on the
\* filesystem.
C1_NoTempFileRemains ==
    RunOver => run_created \cap fs = {}

\* C2: translate_subtitles(d, L, L) returns d unchanged, without a call to
\* load_translation_model and without a call to the translation model.
C2_IdentityTranslation ==
    (t_pc = "returned" /\ ~NonIdentityPair) =>
        /\ t_result = subtitles
        /\ load_calls = 0
        /\ model_calls = <<>>
        /\ model_cache = {}

C2_Witness ==
    /\ t_pc = "returned"
    /\ ~NonIdentityPair
    /\ HasTextualLine(subtitles)
    /\ t_result = subtitles

\* C3: for a non-identity pair, every index line and every timing line of the
\* input is found unchanged at the same line position of the returned text,
\* whatever the translation model answered.
C3_StructuralLinesPreserved ==
    (t_pc = "returned" /\ NonIdentityPair) =>
        LET inp == Split(subtitles)
            out == Split(t_result)
        IN  \A i \in 1..Len(inp) :
                (IsIndexLine(inp[i]) \/ IsTimingLine(inp[i])) =>
                    (i <= Len(out) /\ out[i] = inp[i])

\* C4: when loading the model or translating any one line raises,
\* translate_subtitles raises and returns no document.
C4_TranslationFailureAtomic ==
    t_fault => (t_pc = "raised" /\ t_result = NoDoc)

C4_Witness ==
    /\ t_fault
    /\ t_pc = "raised"
    /\ Len(model_calls) >= 2
    /\ translated_lines # <<>>

\* C5: within a run the stages are invoked in the order extract, transcribe,
\* translate, each at most once, each only after the one before succeeded;
\* a failing stage ends the run as Failed with no later stage invoked.
C5_StageOrder ==
    /\ IsPrefix(calls, StageOrder)
    /\ IsPrefix(stage_ok, calls)
    /\ Len(calls) <= Len(stage_ok) + 1
    /\ pc = "Extracting" => calls = <<>>
    /\ pc = "Transcribing" => calls = <<"extract">>
    /\ pc = "Translating" => stage_ok = <<"extract", "transcribe">>
    /\ pc = "Done" => stage_ok = StageOrder
    /\ pc = "Failed" =>
          /\ calls # <<>>
          /\ IF failed_stage = "cleanup"
             THEN stage_ok = StageOrder
             ELSE /\ failed_stage = calls[Len(calls)]
                  /\ stage_ok = SubSeq(calls, 1, Len(calls) - 1)
    /\ pc # "Failed" => failed_stage = "none"

C5_Witness ==
    /\ pc = "Failed"
    /\ failed_stage = "transcribe"
    /\ calls = <<"extract", "transcribe">>

\* C6: every stage failure ends at the except clause of the pipeline block
\* and is reported as one message that names the stage that failed.
C6_FailureNamesStage ==
    (pc = "Failed" /\ failed_stage # "cleanup") =>
        /\ error_msg # <<>>
        /\ StageNamedBy(error_msg) = failed_stage

\* C8: in every interleaving of concurrent generate_subtitles calls, each
\* session's speech-to-text request is made with that session's credential.
C8_OwnCredentialUsed ==
    \A s \in Sessions : req_pc[s] = "done" => req_used[s] = req_key[s]

\* C9 as stated: every call of extract_audio_to_mp3 creates exactly one
\* temporary video file and exactly one temporary audio file; when it has
\* returned an audio path the video file is gone and the tool exited zero.
C9_ExactlyOneEach ==
    calls # <<>> =>
        /\ Cardinality(CreatedOfKind("video")) = 1
        /\ Cardinality(CreatedOfKind("audio")) = 1
        /\ audio_path # NoFile =>
              /\ CreatedOfKind("video") \cap fs = {}
              /\ ffmpeg_exit = "zero"

\* C9 amended: a call creates at most one temporary video file and at most
\* one temporary audio file, exactly one of each when it returns an audio
\* path; then the video file is gone, the path is the created audio file and
\* the tool exited zero.
C9_AtMostOneEach ==
    calls # <<>> =>
        /\ Cardinality(CreatedOfKind("video")) <= 1
        /\ Cardinality(CreatedOfKind("audio")) <= 1
        /\ audio_path # NoFile =>
              /\ Cardinality(CreatedOfKind("video")) = 1
              /\ CreatedOfKind("audio") = {audio_path}
              /\ CreatedOfKind("video") \cap fs = {}
              /\ ffmpeg_exit = "zero"

C9_Witness ==
    /\ pc = "Transcribing"
    /\ audio_path \in fs
    /\ Cardinality(run_created) = 2

\* C10: whenever a run has started a stage, and whenever translate_subtitles
\* is reached, the source and the target code are among en, ru, uk, pl.
C10_SupportedCodes ==
    (pc # "Idle" \/ calls # <<>>) =>
        /\ source_language_code \in SupportedCodes
        /\ target_language_code \in SupportedCodes

C10_Witness ==
    /\ pc = "Translating"
    /\ t_pc = "loop"
    /\ source_language = "Ukrainian"
    /\ target_language = "Polish"

\* the classification as the claim words it: a line that is neither entirely
\* digits nor contains "-->" is textual, a blank line included
ClaimedTextual(line) == ~IsIndexLine(line) /\ ~IsTimingLine(line)

\* the lines that pass through: blank once stripped, digits once stripped,
\* or holding "-->"
PassesThrough(line) ==
    \/ Strip(line) = <<>>
    \/ IsDigit(Strip(line))
    \/ Contains(line, Arrow)

SentToModel(line) == ~PassesThrough(line)

\* C11 as stated: for a non-identity pair the translation model is invoked
\* exactly once, in document order, for every line that is neither entirely
\* digits nor a timing line (blank lines included) and for no other line,
\* and the returned text has as many lines as the input.
C11_ClaimedClassification ==
    (t_pc = "returned" /\ NonIdentityPair) =>
        /\ model_calls = SelectSeq(Split(subtitles), ClaimedTextual)
        /\ Len(Split(t_result)) = Len(Split(subtitles))

\* C11 amended: for a non-identity pair the translation model is invoked
\* exactly once, in document order, for every line that is not blank once
\* stripped, not digits once stripped and without "-->", and for no other
\* line; the returned text is the join of one piece per input line, a line
\* that passes through being its own piece.
C11_CodeClassification ==
    /\ (t_pc = "loop" /\ NonIdentityPair) =>
          /\ t_lines = Split(subtitles)
          /\ Len(translated_lines) = t_i - 1
          /\ model_calls = SelectSeq(SubSeq(t_lines, 1, t_i - 1), SentToModel)
    /\ (t_pc = "returned" /\ NonIdentityPair) =>
          /\ model_calls = SelectSeq(Split(subtitles), SentToModel)
          /\ Len(translated_lines) = Len(Split(subtitles))
          /\ t_result = Join(translated_lines)
          /\ \A i \in 1..Len(translated_lines) :
                PassesThrough(Split(subtitles)[i]) =>
                    translated_lines[i] = Split(subtitles)[i]

C11_Witness ==
    /\ t_pc = "returned"
    /\ NonIdentityPair
    /\ Len(model_calls) >= 1
    /\ \E i \in 1..Len(t_lines) : t_lines[i] = <<>>
    /\ \E i \in 1..Len(t_lines) : IsIndexLine(t_lines[i])

\* C12: a run that is over has reported exactly one outcome: success, with
\* the document of the run stored, or an error, with no new document stored.
C12_ExactlyOneOutcome ==
    RunOver =>
        /\ success_toast # (error_msg # <<>>)
        /\ success_toast => (stage_ok = StageOrder /\ srt_content = t_result)
        /\ error_msg # <<>> => stage_ok # StageOrder

\* C13: once a run is over, the audio file that its extraction returned has
\* been deleted, whether the run succeeded, or failed in transcription or in
\* translation.
C13_AudioDeletedByRunEnd ==
    (RunOver /\ audio_path # NoFile) => audio_path \notin fs

InRun == pc \in {"Extracting", "Transcribing", "Translating"}

Stages == {"extract", "transcribe", "translate"}

C15_ConfirmedKeyUsed ==
    /\ calls # <<>> => (api_key_confirmed /\ confirmed_keys # {})
    /\ stt_key_used # NoKey =>
          /\ stt_key_used # ""
          /\ stt_key_used \in confirmed_keys

====
